---- MODULE Spec2Model ----
(***************************************************************************)
(* A model of vuex-orm-apollo: the Model wrapper, the QueryBuilder         *)
(* (argument rendering, query assembly, data transformation) and the       *)
(* VuexORMApollo plugin actions fetch / persist / push / destroy.          *)
(*                                                                         *)
(* Three specifications share the module:                                  *)
(*   SpecBuild      buildQuery over a family of model registries           *)
(*   SpecTransform  transformIncomingData over a family of wire payloads   *)
(*   SpecPlugin     the plugin actions with a transport and a store        *)
(*   SpecRoundTrip  transformIncomingData over the wire shape of records   *)
(*   SpecArguments  buildArguments over argument maps and its two flags    *)
(***************************************************************************)
EXTENDS Integers, Sequences, FiniteSets, TLC

VARIABLES
    registry,     \* VuexORMApollo.models: singular name -> Model
    request,      \* the QueryBuilder call under way: [modelName, args]
    document,     \* what the QueryBuilder call returned (or threw)
    payload,      \* the data handed to transformIncomingData
    transformed,  \* what transformIncomingData returned
    store,        \* the host store: entity -> records
    calls,        \* the plugin actions invoked so far, with their position
    network,      \* the requests that reached the network
    cache,        \* the documents held by the Apollo InMemoryCache
    dispatched    \* the store mutations dispatched so far

buildVars     == <<registry, request, document>>
transformVars == <<payload, transformed>>
pluginVars    == <<store, calls, network, cache, dispatched>>
vars          == <<registry, request, document, payload, transformed,
                   store, calls, network, cache, dispatched>>

(***************************************************************************)
(* JavaScript values.  A string is the sequence of its characters; an      *)
(* object is the sequence of its own enumerable entries in insertion       *)
(* order, which is the order Object.keys reports.                          *)
(***************************************************************************)
Undef   == [t |-> "undefined"]
Null    == [t |-> "null"]
NaN     == [t |-> "NaN"]
Num(n)  == [t |-> "number", n |-> n]
Str(s)  == [t |-> "string", s |-> s]
Bool(b) == [t |-> "boolean", b |-> b]
Arr(a)  == [t |-> "array", a |-> a]
Obj(e)  == [t |-> "object", e |-> e]
KV(k, v) == [k |-> k, v |-> v]

\* typeof value
TypeOf(v) ==
    CASE v.t = "undefined" -> "undefined"
      [] v.t = "number"    -> "number"
      [] v.t = "NaN"       -> "number"
      [] v.t = "string"    -> "string"
      [] v.t = "boolean"   -> "boolean"
      [] OTHER             -> "object"

\* the truthiness test of `if (value)`
Truthy(v) ==
    CASE v.t = "undefined" -> FALSE
      [] v.t = "null"      -> FALSE
      [] v.t = "NaN"       -> FALSE
      [] v.t = "number"    -> v.n # 0
      [] v.t = "string"    -> v.s # <<>>
      [] v.t = "boolean"   -> v.b
      [] OTHER             -> TRUE

\* value instanceof Object
InstanceOfObject(v) == v.t \in {"object", "array"}

\* Object.keys(obj)
Keys(o) == [i \in 1..Len(o.e) |-> o.e[i].k]

HasKey(o, k) == o.t = "object" /\ \E i \in 1..Len(o.e) : o.e[i].k = k

\* obj[key]
Get(o, k) ==
    IF HasKey(o, k)
    THEN o.e[CHOOSE i \in 1..Len(o.e) : o.e[i].k = k].v
    ELSE Undef

\* obj[key] = value: an existing key keeps its position
Put(o, k, v) ==
    IF HasKey(o, k)
    THEN Obj([i \in 1..Len(o.e) |-> IF o.e[i].k = k THEN KV(k, v) ELSE o.e[i]])
    ELSE Obj(Append(o.e, KV(k, v)))

Digits == <<"0", "1", "2", "3", "4", "5", "6", "7", "8", "9">>

IsDigit(c) == \E i \in 1..10 : Digits[i] = c

DigitValue(c) == (CHOOSE i \in 1..10 : Digits[i] = c) - 1

RECURSIVE NumToChars(_)
\* String(n) for a non-negative integer
NumToChars(n) ==
    IF n < 10 THEN <<Digits[n + 1]>>
    ELSE Append(NumToChars(n \div 10), Digits[(n % 10) + 1])

RECURSIVE LeadingDigits(_, _, _)
LeadingDigits(chars, acc, seen) ==
    IF chars # <<>> /\ IsDigit(Head(chars))
    THEN LeadingDigits(Tail(chars), 10 * acc + DigitValue(Head(chars)), TRUE)
    ELSE IF seen THEN Num(acc) ELSE NaN

\* String(value), as a template literal interpolates it
ToChars(v) ==
    CASE v.t = "undefined" -> <<"undefined">>
      [] v.t = "null"      -> <<"null">>
      [] v.t = "NaN"       -> <<"NaN">>
      [] v.t = "number"    -> NumToChars(v.n)
      [] v.t = "string"    -> v.s
      [] v.t = "boolean"   -> IF v.b THEN <<"true">> ELSE <<"false">>
      [] v.t = "object"    -> <<"[object Object]">>
      [] OTHER             -> <<"[array]">>

\* a parseInt that hands its argument back
ParseIntKeepingText(v) == v

\* parseInt(value, 0): the leading decimal digits of String(value)
ParseInt(v) ==
    IF v.t = "number" THEN v
    ELSE IF v.t = "string" THEN LeadingDigits(v.s, 0, FALSE)
    ELSE NaN

(***************************************************************************)
(* inflection.singularize / inflection.pluralize on the vocabulary of the  *)
(* model: regular English nouns.                                           *)
(***************************************************************************)
Inflections ==
    { <<"user", "users">>, <<"post", "posts">>, <<"comment", "comments">>,
      <<"tag", "tags">>, <<"node", "nodes">>, <<"id", "ids">>,
      <<"name", "names">>, <<"title", "titles">>,
      <<"createUser", "createUsers">>, <<"updateUser", "updateUsers">>,
      <<"deleteUser", "deleteUsers">> }

Singularize(w) ==
    IF \E p \in Inflections : p[2] = w
    THEN (CHOOSE p \in Inflections : p[2] = w)[1]
    ELSE w

Pluralize(w) ==
    IF \E p \in Inflections : p[1] = w
    THEN (CHOOSE p \in Inflections : p[1] = w)[2]
    ELSE w

(***************************************************************************)
(* Model: the wrapper around one Vuex-ORM entity.                          *)
(***************************************************************************)
Field(name, kind, related) == [name |-> name, kind |-> kind, related |-> related]
Attr(name) == Field(name, "Attr", "")

\* new Model(baseModel)
NewModel(entity, fields) ==
    [ singularName |-> Singularize(entity),
      pluralName   |-> Pluralize(entity),
      fields       |-> fields ]

\* name.endsWith('Id') on the field names of the entities
EndsWithId(name) == name \in {"userId", "postId", "otherId"}

\* a getQueryFields that keeps the <x>Id attributes
IsQueryFieldKeepingIds(f) == f.kind = "Attr"

\* the test of getQueryFields on one field
IsQueryField(f) == f.kind = "Attr" /\ ~EndsWithId(f.name)

\* a getQueryFields without the test of the field kind
GetQueryFieldsOfEveryKind(model) ==
    LET NotId(f) == ~EndsWithId(f.name)
        q == SelectSeq(model.fields, NotId)
    IN  [i \in 1..Len(q) |-> q[i].name]

\* Model.getQueryFields
GetQueryFields(model) ==
    LET q == SelectSeq(model.fields, IsQueryField)
    IN  [i \in 1..Len(q) |-> q[i].name]

IsRelation(f) == f.kind # "Attr"

\* Model.getRelations
GetRelations(model) == SelectSeq(model.fields, IsRelation)

\* no Model: an undefined rootModel, or the lookup that throws
NoModel == [singularName |-> "", pluralName |-> "", fields |-> <<>>]

\* a lookup by the name as given, without singularize
GetModelByGivenName(models, name) ==
    IF name \in DOMAIN models THEN models[name] ELSE NoModel

\* VuexORMApollo.getModel: the registered model, or NoModel where it throws
GetModel(models, name) ==
    IF Singularize(name) \in DOMAIN models
    THEN models[Singularize(name)]
    ELSE NoModel

(***************************************************************************)
(* QueryBuilder.  Rendered text is the sequence of the pieces the code     *)
(* concatenates.                                                           *)
(***************************************************************************)
RECURSIVE JSONStringify(_)
RECURSIVE JSONEntries(_, _)
JSONEntries(entries, first) ==
    IF entries = <<>> THEN <<>>
    ELSE LET e == Head(entries) IN
         IF e.v.t = "undefined" THEN JSONEntries(Tail(entries), first)
         ELSE (IF first THEN <<>> ELSE <<",">>)
              \o <<"\"", e.k, "\"", ":">> \o JSONStringify(e.v)
              \o JSONEntries(Tail(entries), FALSE)

RECURSIVE JSONItems(_, _)
JSONItems(items, first) ==
    IF items = <<>> THEN <<>>
    ELSE (IF first THEN <<>> ELSE <<",">>) \o JSONStringify(Head(items))
         \o JSONItems(Tail(items), FALSE)

\* JSON.stringify(value)
JSONStringify(v) ==
    CASE v.t = "string" -> <<"\"">> \o v.s \o <<"\"">>
      [] v.t = "object" -> <<"{">> \o JSONEntries(v.e, TRUE) \o <<"}">>
      [] v.t = "array"  -> <<"[">> \o JSONItems(v.a, TRUE) \o <<"]">>
      [] v.t = "NaN"    -> <<"null">>
      [] OTHER          -> ToChars(v)

\* value.__type of an object value
TypeTag(v) == IF v.t = "object" THEN Get(v, "__type") ELSE Undef

\* the text of one argument after the colon
TypeOrValue(key, value, signature, valuesAsVariables) ==
    IF signature
    THEN IF TypeOf(value) = "object" /\ Truthy(TypeTag(value))
         THEN ToChars(TypeTag(value)) \o <<"Input!">>
         ELSE IF TypeOf(value) = "number" THEN <<"Number!">> ELSE <<"String!">>
    ELSE IF valuesAsVariables
    THEN <<"$", key>>
    ELSE IF TypeOf(value) = "object" /\ Truthy(TypeTag(value))
         THEN JSONStringify(value)
         ELSE IF TypeOf(value) = "number" THEN ToChars(value)
              ELSE <<"\"">> \o ToChars(value) \o <<"\"">>

\* Ignore ids and connections
IsRenderedArgument(key, value) == ~(value.t = "array" \/ key = "id")

RECURSIVE RenderArguments(_, _, _, _, _)
\* the forEach of buildArguments: returnValue and first after the entries
RenderArguments(entries, signature, valuesAsVariables, returnValue, first) ==
    IF entries = <<>> THEN [returnValue |-> returnValue, first |-> first]
    ELSE LET key   == Head(entries).k
             value == Head(entries).v
         IN  IF IsRenderedArgument(key, value)
             THEN RenderArguments(Tail(entries), signature, valuesAsVariables,
                      returnValue \o (IF first THEN <<>> ELSE <<", ">>)
                        \o (IF signature THEN <<"$">> ELSE <<>>) \o <<key>>
                        \o <<": ">>
                        \o TypeOrValue(key, value, signature, valuesAsVariables),
                      FALSE)
             ELSE RenderArguments(Tail(entries), signature, valuesAsVariables,
                      returnValue, first)

\* QueryBuilder.buildArguments
BuildArguments(args, signature, valuesAsVariables) ==
    IF Truthy(args)
    THEN LET r == RenderArguments(args.e, signature, valuesAsVariables, <<>>, TRUE)
         IN  IF ~r.first THEN <<"(">> \o r.returnValue \o <<")">>
             ELSE r.returnValue
    ELSE <<>>

\* what a build yields: a selection, or the error it threw
Built(doc)  == [err |-> "none", doc |-> doc]
Thrown(err) == [err |-> err]

\* the selection a buildField template parses to
Selection(name, params, multiple, fields, relations) ==
    [ name      |-> name,
      params    |-> params,
      nodes     |-> multiple,
      fields    |-> fields,
      relations |-> relations ]

\* the guard of buildRelationsQuery on one relation
ExpandsRelation(name, rootModel) ==
    rootModel = NoModel
    \/ (name # rootModel.singularName /\ name # rootModel.pluralName)

\* const multiple = field.constructor.name !== 'BelongsTo'
RelationIsMultiple(field) == field.kind # "BelongsTo"

\* the activation of buildField for a model under a root
Frame(model, rootModel) == <<model.singularName, rootModel.singularName>>

RECURSIVE BuildField(_, _, _, _, _, _, _, _)
RECURSIVE RelationQueries(_, _, _, _, _)

\* the forEach of buildRelationsQuery over the relations not yet visited
RelationQueries(models, relations, model, rootModel, stack) ==
    IF relations = <<>> THEN [err |-> "none", docs |-> <<>>]
    ELSE LET field == Head(relations) IN
         IF ExpandsRelation(field.name, rootModel)
         THEN LET r == BuildField(models, field.name, RelationIsMultiple(field),
                           Undef, FALSE,
                           IF rootModel # NoModel THEN rootModel ELSE model,
                           "", stack)
              IN  IF r.err # "none" THEN [err |-> r.err, docs |-> <<>>]
                  ELSE LET rest == RelationQueries(models, Tail(relations),
                                       model, rootModel, stack)
                       IN  IF rest.err # "none" THEN rest
                           ELSE [err |-> "none", docs |-> <<r.doc>> \o rest.docs]
         ELSE RelationQueries(models, Tail(relations), model, rootModel, stack)

\* QueryBuilder.buildRelationsQuery
BuildRelationsQuery(models, model, rootModel, stack) ==
    RelationQueries(models, GetRelations(model), model, rootModel, stack)

\* QueryBuilder.buildField.  stack holds the activations of buildField that
\* have not returned: an activation equal to one of them repeats it without
\* end, and the engine raises RangeError (maximum call stack size exceeded).
BuildField(models, modelName, multiple, args, withVars, rootModel, name, stack) ==
    LET model == GetModel(models, modelName) IN
    IF model = NoModel THEN Thrown("NoSuchModel")
    ELSE IF \E i \in 1..Len(stack) : stack[i] = Frame(model, rootModel)
    THEN Thrown("RangeError")
    ELSE LET params == BuildArguments(args, FALSE, withVars)
             rels   == BuildRelationsQuery(models, model, rootModel,
                           Append(stack, Frame(model, rootModel)))
         IN  IF rels.err # "none" THEN Thrown(rels.err)
             ELSE Built(Selection(
                      IF name # "" THEN name
                      ELSE IF multiple THEN model.pluralName
                      ELSE model.singularName,
                      params, multiple, GetQueryFields(model), rels.docs))

\* args.get('id')
ArgsGet(args, key) == Get(args, key)

\* const multiple = !(args && args.get('id'))
QueryIsMultiple(args) == ~(Truthy(args) /\ Truthy(ArgsGet(args, "id")))

\* QueryBuilder.buildQuery
BuildQuery(models, modelName, args) ==
    BuildField(models, modelName, QueryIsMultiple(args), args, FALSE,
               NoModel, "", <<>>)

\* a transformer that never sees the nodes of a value
NodesNeverFound(v) == Undef

\* data[key].nodes
Nodes(v) == IF v.t = "object" THEN Get(v, "nodes") ELSE Undef

RECURSIVE TransformIncomingData(_)
RECURSIVE TransformEntries(_, _)

\* the forEach of transformIncomingData: result after the entries
TransformEntries(entries, result) ==
    IF entries = <<>> THEN result
    ELSE LET key   == Head(entries).k
             value == Head(entries).v
         IN  TransformEntries(Tail(entries),
                 IF Truthy(value)
                 THEN IF InstanceOfObject(value)
                      THEN IF Truthy(Nodes(value))
                           THEN Put(result, Pluralize(key),
                                    TransformIncomingData(Nodes(value)))
                           ELSE Put(result, Singularize(key),
                                    TransformIncomingData(value))
                      ELSE IF key = "id"
                      THEN Put(result, key, ParseInt(value))
                      ELSE Put(result, key, value)
                 ELSE result)

\* QueryBuilder.transformIncomingData (Object.keys of a primitive is empty)
TransformIncomingData(data) ==
    IF data.t = "array"
    THEN Arr([i \in 1..Len(data.a) |-> TransformIncomingData(data.a[i])])
    ELSE IF data.t = "object"
    THEN TransformEntries(data.e, Obj(<<>>))
    ELSE Obj(<<>>)

\* a transformOutgoingData that only leaves out the id
IsOutgoingKeyWithRelations(relations, key) == key # "id"

\* Ignore IDs and connections
IsOutgoingKey(relations, key) ==
    /\ ~\E i \in 1..Len(relations) : relations[i].name = key
    /\ key # "id"

\* QueryBuilder.transformOutgoingData
TransformOutgoingData(model, data) ==
    LET relations == GetRelations(model)
        Kept(e)   == IsOutgoingKey(relations, e.k)
    IN  Obj(SelectSeq(data.e, Kept))

\* QueryBuilder.buildMutation: a mutation named <action><Entity>, taking the
\* id when one is given, that selects the scalar fields of the model
BuildMutation(model, id, action) ==
    [ operation |-> "mutation",
      action    |-> action,
      entity    |-> model.singularName,
      withId    |-> Truthy(id),
      fields    |-> GetQueryFields(model) ]

(***************************************************************************)
(* SpecBuild: buildQuery on a registry collected from the entities of the  *)
(* test suites (User, Post, Comment), each with any part of its relations. *)
(***************************************************************************)
UserRelations ==
    << Field("posts", "HasMany", "posts"),
       Field("post", "HasOne", "posts"),
       Field("comments", "HasMany", "comments") >>

PostRelations ==
    << Field("user", "BelongsTo", "users"),
       Field("author", "BelongsTo", "users"),
       Field("comments", "HasMany", "comments") >>

CommentRelations ==
    << Field("user", "BelongsTo", "users"),
       Field("post", "BelongsTo", "posts") >>

\* the relations of a candidate list whose names are chosen
Chosen(candidates, names) ==
    LET Pick(f) == f.name \in names IN SelectSeq(candidates, Pick)

RelationNames(candidates) == {candidates[i].name : i \in 1..Len(candidates)}

User(names) ==
    NewModel("users",
        <<Attr("id"), Attr("name")>> \o Chosen(UserRelations, names))

Post(names) ==
    NewModel("posts",
        <<Attr("id"), Attr("content"), Attr("title"), Attr("userId"),
          Attr("otherId")>> \o Chosen(PostRelations, names))

Comment(names) ==
    NewModel("comments",
        <<Attr("id"), Attr("content"), Attr("userId"), Attr("postId")>>
        \o Chosen(CommentRelations, names))

\* VuexORMApollo.collectModels: one Model per entity, keyed by singularName
CollectModels(entities) ==
    [n \in {e.singularName : e \in entities} |->
        CHOOSE e \in entities : e.singularName = n]

Registries ==
    { CollectModels(es) :
        es \in { sel \in SUBSET (
                     {User(n) : n \in {m \in SUBSET RelationNames(UserRelations) :
                                          ~({"posts", "post"} \subseteq m)}}
                     \cup {Post(n) : n \in SUBSET RelationNames(PostRelations)}
                     \cup {Comment(n) : n \in SUBSET RelationNames(CommentRelations)}) :
                  /\ sel # {}
                  /\ \A a, b \in sel : a.singularName = b.singularName => a = b } }

ModelNames == {"users", "user", "posts", "post", "comments", "comment", "tags"}

Filters ==
    { Undef,
      Obj(<<>>),
      Obj(<<KV("id", Num(1))>>),
      Obj(<<KV("active", Bool(TRUE))>>),
      Obj(<<KV("id", Num(2)), KV("name", Str(<<"X">>))>>) }

NoRequest  == [modelName |-> "", args |-> Undef]
NoDocument == [err |-> "pending"]

IdleBuild ==
    /\ registry = <<>>
    /\ request = NoRequest
    /\ document = NoDocument

IdleTransform ==
    /\ payload = Undef
    /\ transformed = Undef

IdlePlugin ==
    /\ store = <<>>
    /\ calls = <<>>
    /\ network = <<>>
    /\ cache = {}
    /\ dispatched = <<>>

InitBuild ==
    /\ registry \in Registries
    /\ request = NoRequest
    /\ document = NoDocument
    /\ IdleTransform
    /\ IdlePlugin

\* a caller invokes queryBuilder.buildQuery(modelName, args)
CallBuildQuery(modelName, args) ==
    /\ request = NoRequest
    /\ request' = [modelName |-> modelName, args |-> args]
    /\ document' = BuildQuery(registry, modelName, args)
    /\ UNCHANGED <<registry, payload, transformed, store, calls, network,
                   cache, dispatched>>

NextBuild == \E modelName \in ModelNames, args \in Filters :
                 CallBuildQuery(modelName, args)

SpecBuild == InitBuild /\ [][NextBuild]_vars

\* C1: buildQuery terminates for every registry: the recursion
\* buildField -> buildRelationsQuery -> buildField never exhausts the stack.
C1_BuildQueryTerminates == document.err # "RangeError"

\* the model the request under way names
RequestedModel == registry[Singularize(request.modelName)]

\* C2: in every document buildQuery produces, no relation block holds a
\* relation block: relations are nested one level below the root, no deeper.
C2_RelationsOneLevelDeep ==
    document.err = "none" =>
        \A i \in 1..Len(document.doc.relations) :
            document.doc.relations[i].relations = <<>>

FieldIndex(model, name) ==
    CHOOSE i \in 1..Len(model.fields) : model.fields[i].name = name

C4_ShapeFollowsFilter ==
    document.err = "none" =>
        LET model == RequestedModel
            doc   == document.doc
        IN  IF HasKey(request.args, "id")
            THEN /\ doc.name = model.singularName
                 /\ ~doc.nodes
                 /\ doc.params = <<"(", "id", ": ", "$", "id", ")">>
            ELSE (request.args = Undef \/ request.args = Obj(<<>>)) =>
                     /\ doc.name = model.pluralName
                     /\ doc.nodes
                     /\ doc.params = <<>>

(***************************************************************************)
(* SpecTransform: transformIncomingData on the responses a server sends    *)
(* for the documents of the plugin: records with a __typename tag, ids as  *)
(* numbers or decimal strings, scalars of every truthiness, connections    *)
(* under nodes and single related records, one inside the other.           *)
(***************************************************************************)
WireIds == {Str(<<"5">>), Str(<<"1", "2">>), Num(1), Num(0)}

WireAuthors ==
    { <<>>,
      <<KV("user", Obj(<<KV("id", Str(<<"7">>)), KV("name", Str(<<"X">>))>>))>> }

WirePosts ==
    { Obj(<<KV("__typename", Str(<<"post">>)), KV("id", id), KV("title", title)>>
          \o author) :
        id \in WireIds, title \in {Str(<<"T">>), Str(<<>>)},
        author \in WireAuthors }

WireRelationValues ==
    {Null, Obj(<<KV("nodes", Arr(<<>>))>>)}
    \cup WirePosts
    \cup {Obj(<<KV("__typename", Str(<<"post">>)), KV("nodes", Arr(<<p>>))>>) :
             p \in WirePosts}
    \cup {Obj(<<KV("nodes", Arr(<<p, q>>))>>) :
             p \in {x \in WirePosts : x.e[2].v = Num(1)},
             q \in {x \in WirePosts : x.e[2].v = Str(<<"5">>)}}

WireRelations ==
    {<<>>} \cup {<<KV(k, v)>> : k \in {"posts", "post"}, v \in WireRelationValues}

WireUsers ==
    { Obj(<<KV("__typename", Str(<<"user">>)), KV("id", id), KV("name", name),
            KV("active", active)>> \o rel) :
        id \in {Str(<<"1">>), Num(2)},
        name \in {Str(<<"X">>), Str(<<>>), Null},
        active \in {Bool(TRUE), Bool(FALSE)},
        rel \in WireRelations }

\* response.data
WirePayloads ==
    {Obj(<<KV("user", u)>>) : u \in WireUsers}
    \cup {Obj(<<KV("users", Obj(<<KV("nodes", Arr(<<u>>))>>))>>) :
             u \in {x \in WireUsers : x.e[2].v = Num(2)}}

InitTransform ==
    /\ payload \in WirePayloads
    /\ transformed = Undef
    /\ IdleBuild
    /\ IdlePlugin

\* a caller invokes queryBuilder.transformIncomingData(payload)
CallTransformIncomingData ==
    /\ transformed = Undef
    /\ transformed' = TransformIncomingData(payload)
    /\ UNCHANGED <<registry, request, document, payload, store, calls,
                   network, cache, dispatched>>

NextTransform == CallTransformIncomingData

SpecTransform == InitTransform /\ [][NextTransform]_vars

IsScalar(v) == v.t \in {"number", "string", "boolean"}

\* the id of the output is the integer the wire id denotes
SameInteger(wire, out) ==
    /\ out.t = "number"
    /\ wire.t = "number" => out.n = wire.n
    /\ wire.t = "string" => NumToChars(out.n) = wire.s

RECURSIVE StoreShaped(_, _, _)
\* out is the store shape of the wire value in, at every depth.  With
\* everyScalar every scalar entry must be copied; without it the truthy
\* ones must be, and an entry with a falsy value must leave no key.
StoreShaped(in, out, everyScalar) ==
    IF in.t = "array"
    THEN /\ out.t = "array"
         /\ Len(out.a) = Len(in.a)
         /\ \A i \in 1..Len(in.a) : StoreShaped(in.a[i], out.a[i], everyScalar)
    ELSE /\ out.t = "object"
         /\ \A i \in 1..Len(in.e) :
                LET k == in.e[i].k
                    v == in.e[i].v
                IN  IF v.t = "object" /\ Get(v, "nodes").t = "array"
                    THEN /\ HasKey(out, Pluralize(k))
                         /\ StoreShaped(Get(v, "nodes"), Get(out, Pluralize(k)),
                                        everyScalar)
                    ELSE IF v.t \in {"object", "array"}
                    THEN /\ HasKey(out, Singularize(k))
                         /\ StoreShaped(v, Get(out, Singularize(k)), everyScalar)
                    ELSE IF k = "id"
                    THEN IF Truthy(v) THEN SameInteger(v, Get(out, k))
                         ELSE ~HasKey(out, k)
                    ELSE IF Truthy(v) \/ (everyScalar /\ IsScalar(v))
                    THEN HasKey(out, k) /\ Get(out, k) = v
                    ELSE ~HasKey(out, k)

\* C6 as stated: at every depth a nodes list lands under the pluralized
\* key, any other nested object under the singularized key, every id is an
\* integer, and every other scalar is copied under its own key.
C6_EveryScalarCopied ==
    transformed # Undef => StoreShaped(payload, transformed, TRUE)

\* C6 as amended: as above, but only the scalars with a truthy value are
\* copied; an entry whose value is null, 0, false or '' leaves no key.
C6_TruthyScalarsCopied ==
    transformed # Undef => StoreShaped(payload, transformed, FALSE)

\* a transformed user with a string id and a falsy scalar, whose key post
\* carries a nodes list of one post that holds a single related user
C6_Witness ==
    /\ transformed # Undef
    /\ HasKey(payload, "user")
    /\ LET u == Get(payload, "user") IN
           /\ Get(u, "id").t = "string"
           /\ Get(u, "active") = Bool(FALSE)
           /\ Nodes(Get(u, "post")).t = "array"
           /\ Len(Nodes(Get(u, "post")).a) = 1
           /\ HasKey(Nodes(Get(u, "post")).a[1], "user")
    /\ Get(Get(transformed, "user"), "posts").t = "array"

(***************************************************************************)
(* SpecPlugin: the actions fetch, persist, push and destroy of the plugin, *)
(* each suspended at its await until the transport replies, over the       *)
(* registry of the integration suite (User has many Post, Post belongs to  *)
(* User).  The host store keeps the records of an entity by id; the        *)
(* transport is the ApolloClient with its InMemoryCache and the default    *)
(* cache-first policy for queries.                                         *)
(***************************************************************************)
MaxCalls == 2

PluginRegistry == CollectModels({User({"posts"}), Post({"user"})})

CharlieBrown ==
    Obj(<< KV("id", Num(1)), KV("name", Str(<<"C">>)),
           KV("posts", Arr(<<Obj(<<KV("id", Num(1)), KV("title", Str(<<"T">>)),
                                   KV("userId", Num(1))>>)>>)) >>)

Snoopy == Put(CharlieBrown, "name", Str(<<"S">>))

\* the id a record is kept under
RecordId(record) == Get(record, "id").n

HasId(record) == record.t = "object" /\ Get(record, "id").t = "number"

\* model.baseModel.getters('find')(id)
Find(records, id) ==
    IF id.t = "number" /\ id.n \in DOMAIN records THEN records[id.n] ELSE Null

\* the store keeps the fields the entity declares
RECURSIVE Merge(_, _, _)
Merge(model, record, entries) ==
    IF entries = <<>> THEN record
    ELSE Merge(model,
               IF \E i \in 1..Len(model.fields) :
                      model.fields[i].name = Head(entries).k
               THEN Put(record, Head(entries).k, Head(entries).v)
               ELSE record,
               Tail(entries))

\* one record put under its id, merged into the record already there
Upsert(model, records, data) ==
    IF ~HasId(data) THEN records
    ELSE LET id  == RecordId(data)
             old == IF id \in DOMAIN records THEN records[id] ELSE Obj(<<>>)
         IN  [k \in DOMAIN records \cup {id} |->
                 IF k = id THEN Merge(model, old, data.e) ELSE records[k]]

RECURSIVE UpsertAll(_, _, _)
UpsertAll(model, records, list) ==
    IF list = <<>> THEN records
    ELSE UpsertAll(model, Upsert(model, records, Head(list)), Tail(list))

\* the store action insertOrUpdate({ data })
InsertOrUpdate(model, records, data) ==
    IF data.t = "array" THEN UpsertAll(model, records, data.a)
    ELSE Upsert(model, records, data)

\* the store action update({ where, data })
Update(model, records, where, data) ==
    IF where.t = "number" /\ where.n \in DOMAIN records /\ data.t = "object"
    THEN LET new == Merge(model, records[where.n], data.e)
             id  == IF HasId(new) THEN RecordId(new) ELSE where.n
         IN  [k \in (DOMAIN records \ {where.n}) \cup {id} |->
                 IF k = id THEN new ELSE records[k]]
    ELSE records

Call(op, name, filter, bypassCache, id, data, status, error) ==
    [ op |-> op, name |-> name, filter |-> filter, bypassCache |-> bypassCache,
      id |-> id, data |-> data, status |-> status, error |-> error,
      source |-> "none", reply |-> Undef,
      resolvedBefore |-> {c \in 1..Len(calls) : calls[c].status = "resolved"} ]

Request(c, kind, doc, variables) ==
    [call |-> c, kind |-> kind, document |-> doc, variables |-> variables]

Dispatch(c, type, where, data) ==
    [call |-> c, type |-> type, where |-> where, data |-> data, settled |-> FALSE]

\* an updateData keyed by the id the server returned
UpdateWhereServerId(data, id) ==
    LET first == IF data.e = <<>> THEN Undef ELSE data.e[1].v
        one   == IF first.t = "array"
                 THEN (IF first.a = <<>> THEN Undef ELSE first.a[1])
                 ELSE first
    IN  [where |-> Get(one, "id"), data |-> one]

\* VuexORMApollo.updateData: the payload of its dispatch('update', ...)
UpdateData(data, id) ==
    LET first == IF data.e = <<>> THEN Undef ELSE data.e[1].v
        one   == IF first.t = "array"
                 THEN (IF first.a = <<>> THEN Undef ELSE first.a[1])
                 ELSE first
    IN  [where |-> id, data |-> one]

\* VuexORMApollo.insertData: one dispatch('insertOrUpdate', ...) per key
InsertData(c, data) ==
    [i \in 1..Len(data.e) |->
        Dispatch(c, "insertOrUpdate", Undef, data.e[i].v)]

RECURSIVE Inserted(_, _, _)
\* the records of the entity after the dispatches of insertData
Inserted(model, records, entries) ==
    IF entries = <<>> THEN records
    ELSE Inserted(model, InsertOrUpdate(model, records, Head(entries).v),
                  Tail(entries))

\* a destroy that sends no variables
DestroyVariablesEmpty(id) == Obj(<<>>)

\* variables: { id }
DestroyVariables(id) == Obj(<<KV("id", id)>>)

\* the variables of mutate
MutateVariables(model, data, id) ==
    LET variables ==
            Obj(<<KV(model.singularName, TransformOutgoingData(model, data))>>)
    IN  IF Truthy(id) THEN Put(variables, "id", id) ELSE variables

\* InMemoryCache: the result held for a document
IsCached(doc) == \E e \in cache : e[1] = doc
Cached(doc)   == (CHOOSE e \in cache : e[1] = doc)[2]

WireUser(id, name) ==
    Obj(<<KV("__typename", Str(<<"user">>)), KV("id", id), KV("name", name)>>)

\* what the server answers to a query document
QueryResponses(doc) ==
    IF doc.nodes
    THEN { Obj(<<KV(doc.name, Obj(<<KV("__typename", Str(<<"user">>)),
                 KV("nodes", Arr(nodes))>>))>>) :
             nodes \in { <<WireUser(Num(1), Str(<<"J">>))>>,
                         <<WireUser(Str(<<"1">>), Str(<<"J">>)),
                           WireUser(Str(<<"2">>), Str(<<"P">>))>> } }
    ELSE { Obj(<<KV(doc.name, WireUser(Num(1), Str(<<"J">>)))>>) }

\* the root field of the mutation document
MutationField(doc) ==
    CASE doc.action = "create" -> "createUser"
      [] doc.action = "update" -> "updateUser"
      [] OTHER                 -> "deleteUser"

\* what the server answers to a mutation document
MutationResponses(doc) ==
    { Obj(<<KV(MutationField(doc), WireUser(Str(<<"7">>), Str(<<"S">>)))>>),
      Obj(<<KV(MutationField(doc), Obj(<<KV("nodes",
              Arr(<<WireUser(Num(7), Str(<<"S">>)),
                    WireUser(Num(8), Str(<<"P">>))>>))>>))>>) }

\* the action's model, as getModel(state.$name) finds it
CallModel(c) == GetModel(registry, calls[c].name)

Entity(c) == CallModel(c).singularName

\* position c of calls becomes call
Becomes(c, call) == [calls EXCEPT ![c] = call]

\* a fetch that sends its query a second time
FetchSendsTwice(name, filter, bypassCache) ==
    /\ Len(calls) < MaxCalls
    /\ LET c     == Len(calls) + 1
           built == BuildQuery(registry, name, filter)
           call  == Call("fetch", name, filter, bypassCache, Undef, Undef,
                         "awaiting", "")
       IN  IF built.err # "none"
           THEN /\ calls' = Append(calls,
                                [call EXCEPT !.status = "rejected",
                                             !.error = built.err])
                /\ UNCHANGED network
           ELSE /\ calls' = Append(calls, [call EXCEPT !.source = "network"])
                /\ network' = network \o
                                  << Request(c, "query", built.doc, Undef),
                                     Request(c, "query", built.doc, Undef) >>
    /\ UNCHANGED <<registry, request, document, payload, transformed, store,
                   cache, dispatched>>

\* fetch({ state, dispatch, filter }): up to the await of apolloRequest
Fetch(name, filter, bypassCache) ==
    /\ Len(calls) < MaxCalls
    /\ LET c     == Len(calls) + 1
           built == BuildQuery(registry, name, filter)
           call  == Call("fetch", name, filter, bypassCache, Undef, Undef,
                         "awaiting", "")
       IN  IF built.err # "none"
           THEN /\ calls' = Append(calls,
                                [call EXCEPT !.status = "rejected",
                                             !.error = built.err])
                /\ UNCHANGED network
           ELSE IF IsCached(built.doc)
           THEN /\ calls' = Append(calls, [call EXCEPT !.source = "cache"])
                /\ UNCHANGED network
           ELSE /\ calls' = Append(calls, [call EXCEPT !.source = "network"])
                /\ network' = Append(network,
                                  Request(c, "query", built.doc, Undef))
    /\ UNCHANGED <<registry, request, document, payload, transformed, store,
                   cache, dispatched>>

\* mutate(action, data, dispatch, model): up to the await of the mutation
Mutate(op, action, name, id, data) ==
    LET c     == Len(calls) + 1
        model == GetModel(registry, name)
        call  == Call(op, name, Undef, FALSE, id, data, "awaiting", "")
    IN  IF model = NoModel
        THEN /\ calls' = Append(calls,
                             [call EXCEPT !.status = "rejected",
                                          !.error = "NoSuchModel"])
             /\ UNCHANGED network
        ELSE IF Truthy(data)
        THEN LET mid == IF action = "create" THEN Undef ELSE Get(data, "id")
             IN  /\ calls' = Append(calls, [call EXCEPT !.source = "network"])
                 /\ network' = Append(network,
                        Request(c, "mutation",
                                BuildMutation(model, mid, action),
                                MutateVariables(model, data, mid)))
        ELSE /\ calls' = Append(calls, [call EXCEPT !.status = "resolved"])
             /\ UNCHANGED network

\* persist({ state, dispatch }, { id })
Persist(name, id) ==
    /\ Len(calls) < MaxCalls
    /\ Mutate("persist", "create", name, id,
              IF GetModel(registry, name) = NoModel THEN Undef
              ELSE Find(store[GetModel(registry, name).singularName], id))
    /\ UNCHANGED <<registry, request, document, payload, transformed, store,
                   cache, dispatched>>

\* push({ state, dispatch }, { data })
Push(name, data) ==
    /\ Len(calls) < MaxCalls
    /\ Mutate("push", "update", name, Undef, data)
    /\ UNCHANGED <<registry, request, document, payload, transformed, store,
                   cache, dispatched>>

\* a destroy without the test of the id
DestroyWithoutGuard(name, id) ==
    /\ Len(calls) < MaxCalls
    /\ LET c     == Len(calls) + 1
           model == GetModel(registry, name)
           call  == Call("destroy", name, Undef, FALSE, id, Undef,
                         "awaiting", "")
       IN  IF model = NoModel
           THEN /\ calls' = Append(calls,
                                [call EXCEPT !.status = "rejected",
                                             !.error = "NoSuchModel"])
                /\ UNCHANGED network
           ELSE /\ calls' = Append(calls, [call EXCEPT !.source = "network"])
                /\ network' = Append(network,
                       Request(c, "mutation",
                               BuildMutation(model, id, "delete"),
                               DestroyVariables(id)))
    /\ UNCHANGED <<registry, request, document, payload, transformed, store,
                   cache, dispatched>>

\* destroy({ state, dispatch }, { id }): up to the await of the mutation
Destroy(name, id) ==
    /\ Len(calls) < MaxCalls
    /\ LET c     == Len(calls) + 1
           model == GetModel(registry, name)
           call  == Call("destroy", name, Undef, FALSE, id, Undef,
                         "awaiting", "")
       IN  IF model = NoModel
           THEN /\ calls' = Append(calls,
                                [call EXCEPT !.status = "rejected",
                                             !.error = "NoSuchModel"])
                /\ UNCHANGED network
           ELSE IF Truthy(id)
           THEN /\ calls' = Append(calls, [call EXCEPT !.source = "network"])
                /\ network' = Append(network,
                       Request(c, "mutation",
                               BuildMutation(model, id, "delete"),
                               DestroyVariables(id)))
           ELSE /\ calls' = Append(calls, [call EXCEPT !.status = "resolved"])
                /\ UNCHANGED network
    /\ UNCHANGED <<registry, request, document, payload, transformed, store,
                   cache, dispatched>>

\* the request call c sent
Sent(c) == network[CHOOSE i \in 1..Len(network) : network[i].call = c]

\* fetch after the await of apolloRequest: transform, insertData, return
FetchResumes(c, data) ==
    LET incoming == TransformIncomingData(data)
    IN  /\ calls' = Becomes(c, [calls[c] EXCEPT !.status = "resolved",
                                                !.reply = data])
        /\ dispatched' = dispatched \o InsertData(c, incoming)
        /\ store' = [store EXCEPT ![Entity(c)] =
                         Inserted(CallModel(c), @, incoming.e)]

\* mutate after the await of the mutation: transform, updateData
MutateResumes(c, data) ==
    LET newData == TransformIncomingData(data)
        update  == UpdateData(newData, Get(calls[c].data, "id"))
    IN  /\ calls' = Becomes(c, [calls[c] EXCEPT !.status = "settling",
                                                !.reply = data])
        /\ dispatched' = Append(dispatched,
                              Dispatch(c, "update", update.where, update.data))
        /\ store' = [store EXCEPT ![Entity(c)] =
                         Update(CallModel(c), @, update.where, update.data)]

\* the network answers the request of call c
TransportReplies(c) ==
    /\ calls[c].status = "awaiting"
    /\ calls[c].source = "network"
    /\ IF calls[c].op = "fetch"
       THEN \E data \in QueryResponses(Sent(c).document) :
                /\ FetchResumes(c, data)
                /\ cache' = {e \in cache : e[1] # Sent(c).document}
                               \cup {<<Sent(c).document, data>>}
       ELSE IF calls[c].op = "destroy"
       THEN \E data \in MutationResponses(Sent(c).document) :
                /\ calls' = Becomes(c, [calls[c] EXCEPT !.status = "resolved",
                                                        !.reply = data])
                /\ UNCHANGED <<store, cache, dispatched>>
       ELSE \E data \in MutationResponses(Sent(c).document) :
                /\ MutateResumes(c, data)
                /\ UNCHANGED cache
    /\ UNCHANGED <<registry, request, document, payload, transformed, network>>

\* the cache answers the query of call c
CacheReplies(c) ==
    /\ calls[c].status = "awaiting"
    /\ calls[c].source = "cache"
    /\ FetchResumes(c,
           Cached(BuildQuery(registry, calls[c].name, calls[c].filter).doc))
    /\ UNCHANGED <<registry, request, document, payload, transformed, network,
                   cache>>

\* a failed request sent once more before the call gives up
TransportFailsRetried(c) ==
    /\ calls[c].status = "awaiting"
    /\ calls[c].source = "network"
    /\ IF Cardinality({i \in 1..Len(network) : network[i].call = c}) = 1
       THEN /\ network' = Append(network, Sent(c))
            /\ UNCHANGED calls
       ELSE /\ calls' = Becomes(c, [calls[c] EXCEPT !.status = "rejected",
                                                    !.error = "NetworkError"])
            /\ UNCHANGED network
    /\ UNCHANGED <<registry, request, document, payload, transformed, store,
                   cache, dispatched>>

\* the request of call c fails: the await throws
TransportFails(c) ==
    /\ calls[c].status = "awaiting"
    /\ calls[c].source = "network"
    /\ calls' = Becomes(c, [calls[c] EXCEPT !.status = "rejected",
                                            !.error = "NetworkError"])
    /\ UNCHANGED <<registry, request, document, payload, transformed, store,
                   network, cache, dispatched>>

\* the promise of dispatch i settles; mutate returned it, so its call ends
DispatchSettles(i) ==
    /\ ~dispatched[i].settled
    /\ dispatched' = [dispatched EXCEPT ![i].settled = TRUE]
    /\ calls' = IF calls[dispatched[i].call].status = "settling"
                THEN Becomes(dispatched[i].call,
                         [calls[dispatched[i].call] EXCEPT !.status = "resolved"])
                ELSE calls
    /\ UNCHANGED <<registry, request, document, payload, transformed, store,
                   network, cache>>

PluginNames == {"users", "user", "tags"}

PluginFilters ==
    {Undef, Obj(<<KV("id", Num(1))>>), Obj(<<KV("active", Bool(TRUE))>>)}

NextPlugin ==
    \/ \E name \in PluginNames, filter \in PluginFilters, bypass \in BOOLEAN :
           /\ name # "users" => (filter = Undef /\ ~bypass)
           /\ bypass => filter = Undef
           /\ Fetch(name, filter, bypass)
    \/ \E name \in PluginNames \ {"user"}, id \in {Num(1), Num(3)} :
           /\ name = "tags" => id = Num(1)
           /\ Persist(name, id)
    \/ \E name \in PluginNames \ {"user"}, data \in {Snoopy, Undef} :
           /\ name = "tags" => data = Snoopy
           /\ Push(name, data)
    \/ \E name \in PluginNames \ {"user"}, id \in {Num(1), Undef} :
           /\ name = "tags" => id = Num(1)
           /\ Destroy(name, id)
    \/ \E c \in 1..Len(calls) : TransportReplies(c)
    \/ \E c \in 1..Len(calls) : CacheReplies(c)
    \/ \E c \in 1..Len(calls) : TransportFails(c)
    \/ \E i \in 1..Len(dispatched) : DispatchSettles(i)

InitPlugin ==
    /\ registry = PluginRegistry
    /\ request = NoRequest
    /\ document = NoDocument
    /\ IdleTransform
    /\ store = [user |-> (1 :> CharlieBrown), post |-> <<>>]
    /\ calls = <<>>
    /\ network = <<>>
    /\ cache = {}
    /\ dispatched = <<>>

SpecPlugin == InitPlugin /\ [][NextPlugin]_vars

\* the requests call c put on the network
RequestsOf(c) == {i \in 1..Len(network) : network[i].call = c}

\* the store mutations call c dispatched
DispatchesOf(c) == {i \in 1..Len(dispatched) : dispatched[i].call = c}

\* C5: a fetch with the filter {active: true} sends a connection query whose
\* root field has the clause (filter: {active: $active}), with the filter
\* map as the variables of the request.
C5_FilterSentAsVariables ==
    \A i \in 1..Len(network) :
        LET call == calls[network[i].call] IN
        (call.op = "fetch" /\ call.filter = Obj(<<KV("active", Bool(TRUE))>>)) =>
            /\ network[i].document.nodes
            /\ network[i].document.params
                   = <<"(", "filter", ": ", "{", "active", ": ", "$", "active",
                       "}", ")">>
            /\ network[i].variables = call.filter

\* C7: the variables of persist and push hold, under the singular name of the
\* model, exactly the fields of the record that are neither relations nor
\* the id; persist sends no id variable, push sends the id of the record.
C7_VariablesAreFlatRecord ==
    \A i \in 1..Len(network) :
        LET call == calls[network[i].call] IN
        call.op \in {"persist", "push"} =>
            LET model     == GetModel(registry, call.name)
                variables == network[i].variables
                sent      == Get(variables, model.singularName)
                relations == {model.fields[j].name : j \in
                                {k \in 1..Len(model.fields) :
                                    model.fields[k].kind # "Attr"}}
            IN  /\ sent.t = "object"
                /\ \A j \in 1..Len(call.data.e) :
                       LET key == call.data.e[j].k IN
                       IF key \in relations \/ key = "id"
                       THEN ~HasKey(sent, key)
                       ELSE HasKey(sent, key)
                            /\ Get(sent, key) = call.data.e[j].v
                /\ \A j \in 1..Len(sent.e) : HasKey(call.data, sent.e[j].k)
                /\ call.op = "persist" =>
                       Keys(variables) = <<model.singularName>>
                /\ call.op = "push" =>
                       /\ Len(variables.e) = 2
                       /\ Get(variables, "id") = Get(call.data, "id")

\* a persist and a push have each sent a record that holds related posts
C7_Witness ==
    \E i, j \in 1..Len(network) :
        /\ calls[network[i].call].op = "persist"
        /\ calls[network[j].call].op = "push"
        /\ Get(calls[network[i].call].data, "posts").a # <<>>
        /\ Get(calls[network[j].call].data, "posts").a # <<>>

\* the record the response holds: its first field, or the first of its list
FirstReturned(reply) ==
    LET first == reply.e[1].v IN
    IF Nodes(first).t = "array" THEN TransformIncomingData(Nodes(first).a[1])
    ELSE IF first.t = "array" THEN TransformIncomingData(first.a[1])
    ELSE TransformIncomingData(first)

\* C8: a persist or push dispatches nothing before its response arrives, and
\* from then on exactly one store mutation: an update whose where is the id
\* of the record the call was made for and whose data is the transformed
\* first field of the response (the first element of a list).
C8_OneUpdateAfterResponse ==
    \A c \in 1..Len(calls) :
        calls[c].op \in {"persist", "push"} =>
            IF calls[c].reply = Undef
            THEN DispatchesOf(c) = {}
            ELSE \E i \in 1..Len(dispatched) :
                    /\ DispatchesOf(c) = {i}
                    /\ dispatched[i].type = "update"
                    /\ dispatched[i].where = Get(calls[c].data, "id")
                    /\ dispatched[i].data = FirstReturned(calls[c].reply)

\* a persist and a push have both resolved, one on a record and one on a
\* list, and the server returned another id than the record had
C8_Witness ==
    \E c, d \in 1..Len(calls) :
        /\ calls[c].op = "persist" /\ calls[d].op = "push"
        /\ calls[c].status = "resolved" /\ calls[d].status = "resolved"
        /\ calls[c].reply # Undef /\ calls[d].reply # Undef
        /\ Nodes(calls[c].reply.e[1].v).t = "array"
        /\ Nodes(calls[d].reply.e[1].v).t # "array"
        /\ \A i \in DispatchesOf(c) \cup DispatchesOf(d) :
               Get(dispatched[i].data, "id") # dispatched[i].where

\* a destroy with an id sends one delete mutation with the variables {id}
\* and dispatches no store mutation
DestroySendsOnlyDelete ==
    \A c \in 1..Len(calls) :
        calls[c].op = "destroy" =>
            /\ DispatchesOf(c) = {}
            /\ (Truthy(calls[c].id) /\ calls[c].error # "NoSuchModel") =>
                   /\ Cardinality(RequestsOf(c)) = 1
                   /\ Sent(c).kind = "mutation"
                   /\ Sent(c).document.action = "delete"
                   /\ Sent(c).variables = Obj(<<KV("id", calls[c].id)>>)

\* a step of a destroy call leaves the store and its mutations as they were
DestroyKeepsStore ==
    (\E c \in 1..Len(calls') :
        /\ calls'[c].op = "destroy"
        /\ (c > Len(calls) \/ calls[c] # calls'[c]))
    => (store' = store /\ dispatched' = dispatched)

\* C9: destroy with an id issues one delete mutation whose variables are
\* exactly {id} and never dispatches a store mutation: the store is
\* unchanged by destroy, whether the request succeeds or fails.
C9_DestroyLeavesStore == []DestroySendsOnlyDelete /\ [][DestroyKeepsStore]_vars

\* one destroy with an id has resolved and another has failed
C9_Witness ==
    \E c, d \in 1..Len(calls) :
        /\ calls[c].op = "destroy" /\ calls[d].op = "destroy"
        /\ calls[c].status = "resolved" /\ calls[c].reply # Undef
        /\ calls[d].error = "NetworkError"

\* C10: a fetch without bypassCache whose filter equals that of a fetch
\* resolved before it causes no network call; a fetch with bypassCache
\* always causes one.
C10_CacheUnlessBypassed ==
    \A c \in 1..Len(calls) :
        (calls[c].op = "fetch" /\ calls[c].error # "NoSuchModel") =>
            /\ ( /\ ~calls[c].bypassCache
                 /\ \E e \in calls[c].resolvedBefore :
                        /\ calls[e].op = "fetch"
                        /\ calls[e].name = calls[c].name
                        /\ calls[e].filter = calls[c].filter )
               => RequestsOf(c) = {}
            /\ calls[c].bypassCache => RequestsOf(c) # {}

\* the calls whose request the transport failed
Failed == {c \in 1..Len(calls) : calls[c].error = "NetworkError"}

\* a call the transport failed is rejected with the transport's error, has
\* sent its one request and has dispatched no store mutation
FailedCallsDispatchNothing ==
    \A c \in Failed :
        /\ calls[c].status = "rejected"
        /\ Cardinality(RequestsOf(c)) = 1
        /\ DispatchesOf(c) = {}

\* the step in which a call fails changes neither the store nor the network,
\* and a failed call takes no further step
FailureKeepsStore ==
    /\ (\E c \in 1..Len(calls) :
            calls[c].error # "NetworkError" /\ calls'[c].error = "NetworkError")
       => (store' = store /\ dispatched' = dispatched /\ network' = network)
    /\ \A c \in Failed : calls'[c] = calls[c]

\* C11: a transport failure during fetch, persist, push or destroy is the
\* failed outcome of that call, which sends no second request and dispatches
\* no store mutation: the store is left as it was.
C11_FailureLeavesStore ==
    []FailedCallsDispatchNothing /\ [][FailureKeepsStore]_vars

\* a fetch and a persist or push of a stored record have both failed
C11_Witness ==
    \E c, d \in Failed :
        /\ calls[c].op = "fetch"
        /\ calls[d].op \in {"persist", "push"}
        /\ Truthy(calls[d].data)

\* no call has more than one request on the network
OneRequestPerCall ==
    \A c \in 1..Len(calls) : Cardinality(RequestsOf(c)) <= 1

\* a step keeps the registry and the requests already sent, and changes the
\* state of at most one call
CallsShareOnlyTheStore ==
    /\ registry' = registry
    /\ \A i \in 1..Len(network) : network'[i] = network[i]
    /\ \A c, d \in 1..Len(calls) :
           (calls'[c] # calls[c] /\ calls'[d] # calls[d]) => c = d

\* C12: every fetch, persist, push or destroy call sends at most one request
\* in every interleaving of the calls in flight; a step of one call changes
\* the state of no other call, and the model registry stays as the
\* constructor built it.
C12_OneRequestPerCall ==
    []OneRequestPerCall /\ [][CallsShareOnlyTheStore]_vars

\* two calls were in flight together: each sent its request before the
\* other was answered, and both have resolved
C12_Witness ==
    \E c, d \in 1..Len(calls) :
        /\ c < d
        /\ RequestsOf(c) # {} /\ RequestsOf(d) # {}
        /\ c \notin calls[d].resolvedBefore
        /\ calls[c].status = "resolved" /\ calls[d].status = "resolved"
        /\ DispatchesOf(c) # {} /\ DispatchesOf(d) # {}

\* the name of call c, singularized, is one the registry holds
Registered(c) ==
    \E n \in DOMAIN registry : registry[n].singularName = Singularize(calls[c].name)

\* C13: a fetch (and the buildQuery it makes), persist, push or destroy for a
\* name that, singularized, is no registered model is rejected with
\* NoSuchModel, sends no request and dispatches no store mutation; a
\* registered model is found under its singular and under its plural name.
C13_UnregisteredNameRejected ==
    \A c \in 1..Len(calls) :
        IF Registered(c)
        THEN /\ calls[c].error # "NoSuchModel"
             /\ calls[c].name \in {CallModel(c).singularName,
                                    CallModel(c).pluralName}
        ELSE /\ calls[c].status = "rejected"
             /\ calls[c].error = "NoSuchModel"
             /\ RequestsOf(c) = {}
             /\ DispatchesOf(c) = {}

\* a call for tags was rejected, and a call made under the singular name
\* user has sent its request and resolved
C13_Witness ==
    \E c, d \in 1..Len(calls) :
        /\ calls[c].name = "tags" /\ calls[c].error = "NoSuchModel"
        /\ calls[d].name = "user" /\ calls[d].status = "resolved"
        /\ RequestsOf(d) # {}

\* the scalar names the root selection of the document holds
SelectedFields == {document.doc.fields[i] : i \in 1..Len(document.doc.fields)}

\* C14: the selection built for Post holds otherId, an attribute that ends
\* with Id but is the foreign key of no relation, and holds no foreign key
\* such as userId.
C14_NonForeignKeyIdSelected ==
    (document.err = "none" /\ Singularize(request.modelName) = "post") =>
        /\ "otherId" \in SelectedFields
        /\ "userId" \notin SelectedFields

(***************************************************************************)
(* SpecRoundTrip: transformIncomingData applied to the wire shape of a     *)
(* record of the store: a user with its scalar fields and related posts,   *)
(* each post with its scalar fields and, possibly, its user.               *)
(***************************************************************************)
StoreAuthors ==
    { <<>>,
      <<KV("user", Obj(<<KV("id", Num(7)), KV("name", Str(<<"X">>))>>))>> }

StorePosts ==
    { Obj(<<KV("id", Num(id)), KV("title", title), KV("otherId", Num(other))>>
          \o author) :
        id \in {1, 5}, title \in {Str(<<"T">>), Str(<<>>)}, other \in {0, 7},
        author \in StoreAuthors }

StoreRelationValues ==
    {Arr(<<>>)}
    \cup {Arr(<<p>>) : p \in StorePosts}
    \cup {Arr(<<p, q>>) :
             p \in {x \in StorePosts : x.e[1].v = Num(1) /\ Len(x.e) = 3},
             q \in {x \in StorePosts : x.e[1].v = Num(5) /\ Len(x.e) = 4}}

StoreRelations ==
    {<<>>} \cup {<<KV(k, v)>> : k \in {"posts", "post"}, v \in StoreRelationValues}

StoreUsers ==
    { Obj(<<KV("id", Num(id)), KV("name", name), KV("active", Bool(active))>>
          \o rel) :
        id \in {1, 2}, name \in {Str(<<"X">>), Str(<<>>)}, active \in BOOLEAN,
        rel \in StoreRelations }

RECURSIVE ToWireShapeLike(_)
\* the wire shape of a record: every list of related records under nodes
ToWireShapeLike(record) ==
    Obj([i \in 1..Len(record.e) |->
            LET v == record.e[i].v IN
            KV(record.e[i].k,
               IF v.t = "array"
               THEN Obj(<<KV("nodes",
                             Arr([j \in 1..Len(v.a) |-> ToWireShapeLike(v.a[j])]))>>)
               ELSE IF v.t = "object" THEN ToWireShapeLike(v)
               ELSE v)])

InitRoundTrip ==
    /\ payload \in {ToWireShapeLike(r) : r \in StoreUsers}
    /\ transformed = Undef
    /\ IdleBuild
    /\ IdlePlugin

SpecRoundTrip == InitRoundTrip /\ [][NextTransform]_vars

RECURSIVE RoundTrips(_, _, _, _)
\* out is the record again.  With everyScalar every scalar of the record is
\* in out with its value; without it the truthy ones are, and a falsy one
\* leaves no key.  With sameKey every relation is under the key of the
\* record; without it a list is under the pluralized key and a single
\* record under the singularized key.
RoundTrips(record, out, everyScalar, sameKey) ==
    /\ out.t = "object"
    /\ \A i \in 1..Len(record.e) :
           LET k == record.e[i].k
               v == record.e[i].v
           IN  IF v.t = "array"
               THEN LET key == IF sameKey THEN k ELSE Pluralize(k) IN
                    /\ HasKey(out, key)
                    /\ Get(out, key).t = "array"
                    /\ Len(Get(out, key).a) = Len(v.a)
                    /\ \A j \in 1..Len(v.a) :
                           RoundTrips(v.a[j], Get(out, key).a[j],
                                      everyScalar, sameKey)
               ELSE IF v.t = "object"
               THEN LET key == IF sameKey THEN k ELSE Singularize(k) IN
                    /\ HasKey(out, key)
                    /\ RoundTrips(v, Get(out, key), everyScalar, sameKey)
               ELSE IF everyScalar \/ Truthy(v)
               THEN HasKey(out, k) /\ Get(out, k) = v
               ELSE ~HasKey(out, k)
    /\ Len(out.e) <= Len(record.e)

\* C15 as stated: transformIncomingData of the wire shape of a record holds
\* every scalar of the record with its value, 0, false and '' included, and
\* every relation under the key the record has it under.
C15_RoundTripKeepsEverything ==
    \A r \in StoreUsers :
        (payload = ToWireShapeLike(r) /\ transformed # Undef) =>
            RoundTrips(r, transformed, TRUE, TRUE)

\* C15 as amended: it holds every scalar whose value is truthy with its
\* value and no key for a scalar that is 0, false or ''; a list of related
\* records is under the pluralized key and a single related record under
\* the singularized key.
C15_RoundTripKeepsTruthy ==
    \A r \in StoreUsers :
        (payload = ToWireShapeLike(r) /\ transformed # Undef) =>
            RoundTrips(r, transformed, FALSE, FALSE)

\* the wire shape of a user with a falsy scalar and two related posts, one
\* with otherId 0 and one with its user, has been transformed
C15_Witness ==
    /\ transformed # Undef
    /\ Get(payload, "active") = Bool(FALSE)
    /\ Nodes(Get(payload, "posts")).t = "array"
    /\ Len(Nodes(Get(payload, "posts")).a) = 2
    /\ Get(Nodes(Get(payload, "posts")).a[1], "otherId") = Num(0)
    /\ HasKey(Nodes(Get(payload, "posts")).a[2], "user")
    /\ Len(Get(transformed, "posts").a) = 2

RECURSIVE HasNoTypename(_)
\* no object of v, at any depth, has the key __typename
HasNoTypename(v) ==
    IF v.t = "array" THEN \A i \in 1..Len(v.a) : HasNoTypename(v.a[i])
    ELSE IF v.t = "object"
    THEN /\ ~HasKey(v, "__typename")
         /\ \A i \in 1..Len(v.e) : HasNoTypename(v.e[i].v)
    ELSE TRUE

\* C16: transformIncomingData ignores the __typename of every node: no
\* object of its output, at any depth, has a __typename key.
C16_TypenameIgnored ==
    transformed # Undef => HasNoTypename(transformed)

\* the relations of a model
RelationsOf(model) ==
    {model.fields[i] : i \in {j \in 1..Len(model.fields) : IsRelation(model.fields[j])}}

RECURSIVE HoldsNoBlockFor(_, _)
\* no block among docs, at any depth, is named for the model
HoldsNoBlockFor(docs, model) ==
    \A i \in 1..Len(docs) :
        /\ docs[i].name \notin {model.singularName, model.pluralName}
        /\ HoldsNoBlockFor(docs[i].relations, model)

\* C17: in the build for root model R, the guard of buildRelationsQuery on a
\* model reached from R skips the relations whose target entity is R,
\* whatever their name, and no other relation; no block for R is nested in
\* a document built for R.
C17_CycleGuardByTarget ==
    (request # NoRequest /\ GetModel(registry, request.modelName) # NoModel) =>
        /\ \A f \in RelationsOf(RequestedModel) :
               \A g \in RelationsOf(GetModel(registry, f.name)) :
                   ExpandsRelation(g.name, RequestedModel)
                       <=> Singularize(g.related) # RequestedModel.singularName
        /\ document.err = "none" =>
               HoldsNoBlockFor(document.doc.relations, RequestedModel)

\* C18: every relation block of a built document is, for a to-one relation
\* (BelongsTo and HasOne alike), named by the singular name of its model
\* and without nodes and, for a to-many relation, named by the plural name
\* and wrapped in nodes.
C18_ToOneSingularToManyNodes ==
    document.err = "none" =>
        LET relations == GetRelations(RequestedModel)
            blocks    == document.doc.relations
        IN  /\ Len(blocks) = Len(relations)
            /\ \A i \in 1..Len(relations) :
                   LET model == GetModel(registry, relations[i].name) IN
                   IF relations[i].kind \in {"BelongsTo", "HasOne"}
                   THEN blocks[i].name = model.singularName /\ ~blocks[i].nodes
                   ELSE blocks[i].name = model.pluralName /\ blocks[i].nodes

RECURSIVE QueryableScalars(_)
\* the names, in declaration order, of the scalar attributes among fields
\* that are not <x>Id
QueryableScalars(fields) ==
    IF fields = <<>> THEN <<>>
    ELSE IF Head(fields).kind = "Attr" /\ ~EndsWithId(Head(fields).name)
    THEN <<Head(fields).name>> \o QueryableScalars(Tail(fields))
    ELSE QueryableScalars(Tail(fields))

\* the names in a sequence of names
NamesIn(names) == {names[i] : i \in 1..Len(names)}

MaxArguments == 3

ArgumentEntries ==
    { KV("name", Str(<<"C", "h", "a", "r", "l", "i", "e", " ",
                       "B", "r", "o", "w", "n">>)),
      KV("age", Num(42)),
      KV("active", Bool(TRUE)),
      KV("id", Num(1)),
      KV("posts", Arr(<<Num(1), Num(2)>>)),
      KV("user", Obj(<<KV("__type", Str(<<"U", "s", "e", "r">>)),
                       KV("name", Str(<<"X">>))>>)) }

\* the argument maps: undefined, or some arguments in some order
ArgumentMaps ==
    {Undef} \cup
    UNION { { Obj(e) : e \in { f \in [1..n -> ArgumentEntries] :
                                  \A i, j \in 1..n : f[i].k = f[j].k => i = j } } :
            n \in 0..MaxArguments }

InitArguments ==
    /\ registry = <<>>
    /\ request \in { [modelName |-> "", args |-> args, signature |-> signature,
                       valuesAsVariables |-> valuesAsVariables] :
                         args \in ArgumentMaps, signature \in BOOLEAN,
                         valuesAsVariables \in BOOLEAN }
    /\ document = NoDocument
    /\ IdleTransform
    /\ IdlePlugin

\* a caller invokes queryBuilder.buildArguments(args, signature, valuesAsVariables)
CallBuildArguments ==
    /\ document = NoDocument
    /\ document' = Built(BuildArguments(request.args, request.signature,
                                        request.valuesAsVariables))
    /\ UNCHANGED <<registry, request, payload, transformed, store, calls,
                   network, cache, dispatched>>

NextArguments == CallBuildArguments

SpecArguments == InitArguments /\ [][NextArguments]_vars

RECURSIVE Text(_)
\* the string the pieces make
Text(pieces) == IF pieces = <<>> THEN "" ELSE Head(pieces) \o Text(Tail(pieces))

\* the GraphQL type of each argument, as a signature names it
TypeOfArgument(key) ==
    CASE key = "age"  -> "Number!"
      [] key = "id"   -> "Number!"
      [] key = "user" -> "UserInput!"
      [] OTHER        -> "String!"

\* each argument written as a literal
LiteralOfArgument(key) ==
    CASE key = "name"   -> "\"Charlie Brown\""
      [] key = "age"    -> "42"
      [] key = "active" -> "\"true\""
      [] key = "id"     -> "1"
      [] OTHER          -> "{\"__type\":\"User\",\"name\":\"X\"}"

\* one argument in the form the flags choose
EntryText(key, signature, valuesAsVariables) ==
    IF signature THEN "$" \o key \o ": " \o TypeOfArgument(key)
    ELSE IF valuesAsVariables THEN key \o ": $" \o key
    ELSE key \o ": " \o LiteralOfArgument(key)

RECURSIVE JoinedText(_, _, _, _)
\* the entries outside skipped, each in its form, joined with ", "
JoinedText(entries, skipped, signature, valuesAsVariables) ==
    IF entries = <<>> THEN ""
    ELSE IF Head(entries).k \in skipped
    THEN JoinedText(Tail(entries), skipped, signature, valuesAsVariables)
    ELSE LET rest == JoinedText(Tail(entries), skipped, signature,
                                valuesAsVariables)
         IN  EntryText(Head(entries).k, signature, valuesAsVariables)
             \o (IF rest = "" THEN "" ELSE ", " \o rest)

\* the clause: the joined entries in parentheses, or nothing without entries
ClauseText(args, skipped, signature, valuesAsVariables) ==
    LET joined == IF args = Undef THEN ""
                  ELSE JoinedText(args.e, skipped, signature, valuesAsVariables)
    IN  IF joined = "" THEN "" ELSE "(" \o joined \o ")"

\* C20: buildArguments renders every argument that is not a list, as
\* $name: <Type>! with signature, as name: $name with valuesAsVariables, as
\* a literal with neither; it joins them with ", " and wraps them in
\* parentheses when there is at least one, and returns '' otherwise.
C20_EveryNonListArgumentRendered ==
    document.err = "none" =>
        Text(document.doc) = ClauseText(request.args, {"posts"},
                                 request.signature, request.valuesAsVariables)

\* what buildArguments does return: the clause of the arguments that are
\* neither a list nor named id
IdsAndListsSkipped ==
    document.err = "none" =>
        Text(document.doc) = ClauseText(request.args, {"posts", "id"},
                                 request.signature, request.valuesAsVariables)

\* C21: a fetch has resolved to its caller only when every insertOrUpdate
\* it dispatched, one per top-level key of the transformed response, has
\* completed: no resolved fetch has a store insert still pending.
C21_FetchAwaitsItsInserts ==
    \A c \in 1..Len(calls) :
        (calls[c].op = "fetch" /\ calls[c].status = "resolved") =>
            \A i \in DispatchesOf(c) : dispatched[i].settled

\* call c has nothing to send: a persist or push without a record, or a
\* destroy without an id, for a registered model
NothingToSend(c) ==
    /\ Registered(c)
    /\ \/ calls[c].op \in {"persist", "push"} /\ ~Truthy(calls[c].data)
       \/ calls[c].op = "destroy" /\ ~Truthy(calls[c].id)

\* C22: a persist for an id that has no record in the store, a push without
\* a record and a destroy without an id send no request, dispatch no store
\* mutation and resolve without an error; the persist of the id 3, which no
\* record has, is such a call.
C22_NoOpGuards ==
    \A c \in 1..Len(calls) :
        /\ (calls[c].op = "persist" /\ calls[c].id = Num(3) /\ Registered(c))
               => NothingToSend(c)
        /\ NothingToSend(c) =>
               /\ calls[c].status = "resolved"
               /\ calls[c].error = ""
               /\ RequestsOf(c) = {}
               /\ DispatchesOf(c) = {}

\* a persist of the id 3 and a destroy without an id have both been made
C22_Witness ==
    /\ \E c, d \in 1..Len(calls) :
           /\ calls[c].op = "persist" /\ calls[c].id = Num(3)
           /\ calls[d].op = "destroy" /\ calls[d].id = Undef
           /\ NothingToSend(c) /\ NothingToSend(d)

====
